---- MODULE Spec2Model ----
(***************************************************************************)
(* Model of solver-of-squares: the puzzle definition (Game), the           *)
(* transition model (BoardState) and the best-first search (astar).        *)
(*                                                                         *)
(* Conventions.                                                            *)
(*   Option<T>      None is <<>>, Some(x) is <<x>>.                        *)
(*   Position2D     <<x, y>>.                                              *)
(*   Vec<T>         a sequence; the code's indices are 0-based, so the     *)
(*                  element with index i is seq[i + 1].                    *)
(*   HashMap<K, V>  a function whose DOMAIN is the set of keys.            *)
(*   Rc<Node>       the node itself (nodes are immutable once built).      *)
(* Coordinates and costs stay many orders of magnitude below the i32       *)
(* limits in every modelled state, so i32 arithmetic is exact here.        *)
(***************************************************************************)
EXTENDS Integers, Sequences, FiniteSets, TLC

(* ------------------------------ bounds -------------------------------- *)
MaxMoves == 3
MoveSteps == 2
MaxDeclared == 3

(* --------------------------- input families --------------------------- *)
(* The games of Spec and FairSpec lie on one row of four cells, with at   *)
(* most two blocks and one arrow, all facing Left or Right. The boards of *)
(* SpecMove have three blocks facing any direction on MoveCells and at    *)
(* most one arrow; MoveGoals gives the first and the third block a goal.  *)
(* SpecBuild declares up to three colors on two cells of the row, and the *)
(* boards of SpecPush have three blocks on the row, facing Left or Right. *)
ColorNames == <<"a", "b">>
MoveColors == <<"a", "b", "c">>

Direction == {"Up", "Down", "Left", "Right"}
InputDirections == {"Left", "Right"}
Cells == {<<x, 0>> : x \in 0..3}
MoveCells == {<<0, 0>>, <<1, 0>>, <<2, 0>>, <<0, 1>>}
MoveGoals == <<<<<<2, 0>>>>, <<>>, <<<<0, 1>>>>>>

None == <<>>
Some(x) == <<x>>

(* Call by value: F applied to the value of v, v being evaluated once.    *)
ByValue(v, F(_)) == CHOOSE r \in {F(x) : x \in {v}} : TRUE

(* declared is the history of the add_block calls of a build (kept by    *)
(* SpecBuild only), pushed the history of the states pushed by astar;     *)
(* call is the pending call of push_square inside a move and displaced    *)
(* the blocks displaced so far by that move (kept by SpecPush only).      *)
VARIABLES goals, arrows, colors, color_idx_map, initial_state,
          pc, max_cost, open_set, seen, node, result, pushed, declared,
          call, displaced

vars == <<goals, arrows, colors, color_idx_map, initial_state,
          pc, max_cost, open_set, seen, node, result, pushed, declared,
          call, displaced>>

(* ------------------------- transition model --------------------------- *)
Displace(position, direction) ==
    CASE direction = "Up" -> <<position[1], position[2] + 1>>
      [] direction = "Down" -> <<position[1], position[2] - 1>>
      [] direction = "Left" -> <<position[1] - 1, position[2]>>
      [] direction = "Right" -> <<position[1] + 1, position[2]>>

RECURSIVE FindCollisionFrom(_, _, _)
FindCollisionFrom(squares, color_idx, idx) ==
    IF idx >= Len(squares) THEN None
    ELSE IF idx # color_idx
            /\ squares[idx + 1].position = squares[color_idx + 1].position
         THEN Some(idx)
         ELSE FindCollisionFrom(squares, color_idx, idx + 1)

find_collision_with_self(squares, color_idx) ==
    Some(CHOOSE idx \in 0..(Len(squares) - 1) :
            /\ squares[idx + 1].position = squares[color_idx + 1].position
            /\ \A j \in 0..(idx - 1) :
                  squares[j + 1].position # squares[color_idx + 1].position)

find_collision_with(squares, color_idx) ==
    FindCollisionFrom(squares, color_idx, 0)

RECURSIVE push_square(_, _, _)
push_square_own_facing(squares, color_idx, direction) ==
    LET block == squares[color_idx + 1]
        position == Displace(block.position, direction)
        moved == [position |-> position,
                  direction |-> IF position \in DOMAIN arrows
                                THEN arrows[position]
                                ELSE block.direction]
    IN  ByValue([squares EXCEPT ![color_idx + 1] = moved], LAMBDA sq :
            ByValue(find_collision_with(sq, color_idx), LAMBDA collided :
                IF collided # None
                THEN push_square(sq, collided[1],
                                 sq[collided[1] + 1].direction)
                ELSE sq))

push_square_redirected(squares, color_idx, direction) ==
    LET block == squares[color_idx + 1]
        position == Displace(block.position, direction)
        moved == [position |-> position,
                  direction |-> IF position \in DOMAIN arrows
                                THEN arrows[position]
                                ELSE block.direction]
    IN  ByValue([squares EXCEPT ![color_idx + 1] = moved], LAMBDA sq :
            ByValue(find_collision_with(sq, color_idx), LAMBDA collided :
                IF collided # None
                THEN push_square(sq, collided[1], moved.direction)
                ELSE sq))

push_square_alone(squares, color_idx, direction) ==
    LET block == squares[color_idx + 1]
        position == Displace(block.position, direction)
        moved == [position |-> position,
                  direction |-> IF position \in DOMAIN arrows
                                THEN arrows[position]
                                ELSE block.direction]
    IN  [squares EXCEPT ![color_idx + 1] = moved]

push_square_turning(squares, color_idx, direction) ==
    LET block == squares[color_idx + 1]
        position == Displace(block.position, direction)
        moved == [position |-> position,
                  direction |-> IF position \in DOMAIN arrows
                                THEN arrows[position]
                                ELSE direction]
    IN  ByValue([squares EXCEPT ![color_idx + 1] = moved], LAMBDA sq :
            ByValue(find_collision_with(sq, color_idx), LAMBDA collided :
                IF collided # None
                THEN push_square(sq, collided[1], direction)
                ELSE sq))

push_square(squares, color_idx, direction) ==
    LET block == squares[color_idx + 1]
        position == Displace(block.position, direction)
        moved == [position |-> position,
                  direction |-> IF position \in DOMAIN arrows
                                THEN arrows[position]
                                ELSE block.direction]
    IN  ByValue([squares EXCEPT ![color_idx + 1] = moved], LAMBDA sq :
            ByValue(find_collision_with(sq, color_idx), LAMBDA collided :
                IF collided # None
                THEN push_square(sq, collided[1], direction)
                ELSE sq))

move_square(state, color_idx) ==
    [cost |-> state.cost + 1,
     previous_move |-> Some(color_idx),
     squares |-> push_square(state.squares, color_idx,
                             state.squares[color_idx + 1].direction)]

Abs_identity(x) == x

Abs(x) == IF x < 0 THEN -x ELSE x

RECURSIVE ManhattanFrom(_, _, _)
ManhattanFrom(a, b, i) ==
    IF i >= Len(a) THEN 0
    ELSE Abs(a[i + 1] - b[i + 1]) + ManhattanFrom(a, b, i + 1)

manhattan_distance(a, b) == ManhattanFrom(a, b, 0)

RECURSIVE DistanceFrom(_, _)
DistanceFrom(squares, idx) ==
    IF idx >= Len(colors) THEN 0
    ELSE (IF goals[idx + 1] # None
          THEN manhattan_distance(squares[idx + 1].position,
                                  goals[idx + 1][1])
          ELSE 0)
         + DistanceFrom(squares, idx + 1)

distance_to_goal(state) == DistanceFrom(state.squares, 0)

is_goal_within_budget(state) ==
    distance_to_goal(state) = 0 /\ state.cost <= max_cost

is_goal(state) == distance_to_goal(state) = 0

successors_reversed(state) ==
    [i \in 1..Len(colors) |-> move_square(state, Len(colors) - i)]

successors(state) ==
    [i \in 1..Len(colors) |-> move_square(state, i - 1)]

cost(state) == state.cost

hash_with_cost(state) ==
    <<Len(state.squares), state.cost>>
    \o [i \in 1..Len(state.squares) |->
          <<state.squares[i].position, state.squares[i].direction>>]

(* The identity of a state: the words BoardState::hash feeds the hasher   *)
(* (the squares only: length, then position and direction of each block). *)
(* DefaultHasher::new() is keyed with constants, and its 64-bit digest is *)
(* taken to be collision-free on the configurations of one search.        *)
hash(state) ==
    <<Len(state.squares)>>
    \o [i \in 1..Len(state.squares) |->
          <<state.squares[i].position, state.squares[i].direction>>]

(* ------------------------------ search -------------------------------- *)
(* Ord::cmp of Node: compares f = cost + distance_to_goal.                *)
cmp(self, other) ==
    LET self_cost == cost(self.state) + distance_to_goal(self.state)
        other_cost == cost(other.state) + distance_to_goal(other.state)
    IN  IF self_cost < other_cost THEN "Less"
        ELSE IF self_cost > other_cost THEN "Greater" ELSE "Equal"

partial_cmp_unreversed(self, other) == cmp(self, other)

(* PartialOrd::partial_cmp of Node: the reverse of cmp.                   *)
partial_cmp(self, other) == cmp(other, self)

(* self <= other, the comparison BinaryHeap makes (PartialOrd::le).       *)
le(self, other) == partial_cmp(self, other) \in {"Less", "Equal"}

(* PartialEq::eq of Node: equal identities.                               *)
eq(self, other) == hash(self.state) = hash(other.state)

(* BinaryHeap: a max-heap kept in a vector `data`; positions 0-based.     *)
RECURSIVE SiftUpLoop(_, _, _, _)
SiftUpLoop(data, element, start, pos) ==
    IF pos > start
    THEN LET parent == (pos - 1) \div 2
         IN  IF le(element, data[parent + 1])
             THEN [data EXCEPT ![pos + 1] = element]
             ELSE ByValue([data EXCEPT ![pos + 1] = data[parent + 1]],
                          LAMBDA moved : SiftUpLoop(moved, element, start,
                                                    parent))
    ELSE [data EXCEPT ![pos + 1] = element]

sift_up(data, start, pos) == SiftUpLoop(data, data[pos + 1], start, pos)

RECURSIVE SiftDownLoop(_, _, _)
SiftDownLoop(data, element, pos) ==
    LET end == Len(data)
        child == 2 * pos + 1
    IN  IF end >= 2 /\ child <= end - 2
        THEN ByValue(IF le(data[child + 1], data[child + 2])
                     THEN child + 1 ELSE child, LAMBDA c :
                 ByValue([data EXCEPT ![pos + 1] = data[c + 1]],
                         LAMBDA moved : SiftDownLoop(moved, element, c)))
        ELSE IF child = end - 1
             THEN ByValue([data EXCEPT ![pos + 1] = data[child + 1],
                                       ![child + 1] = element],
                          LAMBDA moved : sift_up(moved, 0, child))
             ELSE ByValue([data EXCEPT ![pos + 1] = element],
                          LAMBDA moved : sift_up(moved, 0, pos))

sift_down_to_bottom(data, pos) == SiftDownLoop(data, data[pos + 1], pos)

heap_push(data, item) == sift_up(Append(data, item), 0, Len(data))

heap_pop_keep(data) == <<data[1], data>>

(* pop: <<the greatest item, the remaining heap>>; data is not empty.     *)
heap_pop(data) ==
    LET last == data[Len(data)]
        rest == SubSeq(data, 1, Len(data) - 1)
    IN  IF rest # <<>>
        THEN <<rest[1],
               ByValue([rest EXCEPT ![1] = last],
                       LAMBDA swapped : sift_down_to_bottom(swapped, 0))>>
        ELSE <<last, rest>>

Reverse(seq) == [i \in 1..Len(seq) |-> seq[Len(seq) + 1 - i]]

(* node_to_path: walk the parent links from the node to the root,         *)
(* collecting the states, then reverse.                                   *)
RECURSIVE PathWalk(_)
PathWalk(n) ==
    <<n.state>> \o (IF n.parent = None THEN <<>> ELSE PathWalk(n.parent[1]))

node_to_path_unreversed(n) == PathWalk(n)

node_to_path(n) == Reverse(PathWalk(n))

(* filter_map(previous_move) then map to the color.                       *)
RECURSIVE MovesOf(_)
MovesOf_unfiltered(states) ==
    [i \in 1..Len(states) |->
        IF states[i].previous_move # None
        THEN colors[states[i].previous_move[1] + 1] ELSE ""]

MovesOf(states) ==
    IF states = <<>> THEN <<>>
    ELSE (IF states[1].previous_move # None
          THEN <<colors[states[1].previous_move[1] + 1]>>
          ELSE <<>>) \o MovesOf(Tail(states))

(* `node.state.cost() < max_cost`: may the popped node be expanded?       *)
within_budget_le(state) == cost(state) <= max_cost

within_budget(state) == cost(state) < max_cost

(* The loop over the successors of the popped node (search.rs 83-94):     *)
(* acc carries open_set, seen and the history of pushed states.           *)
RECURSIVE PushSuccessors(_, _, _, _, _)
PushSuccessors(succs, i, parent, new_depth, acc) ==
    IF i > Len(succs) THEN acc
    ELSE LET successor == succs[i]
             h == hash(successor)
         IN  IF h \notin acc.seen
             THEN ByValue([seen |-> acc.seen \cup {h},
                           open_set |-> heap_push(acc.open_set,
                                          [depth |-> new_depth,
                                           state |-> successor,
                                           parent |-> Some(parent)]),
                           pushed |-> Append(acc.pushed, successor)],
                          LAMBDA inserted :
                              PushSuccessors(succs, i + 1, parent, new_depth,
                                             inserted))
             ELSE PushSuccessors(succs, i + 1, parent, new_depth, acc)

(* ------------------------------ actions ------------------------------- *)
(* Game::new()                                                            *)
Init ==
    /\ goals = <<>>
    /\ arrows = <<>>
    /\ colors = <<>>
    /\ color_idx_map = <<>>
    /\ initial_state = <<>>
    /\ pc = "build"
    /\ max_cost = 0
    /\ open_set = <<>>
    /\ seen = {}
    /\ node = None
    /\ result = None
    /\ pushed = <<>>
    /\ declared = <<>>
    /\ call = None
    /\ displaced = <<>>

(* Colors are opaque names: a new color is always the next unused name.   *)
InputColors ==
    DOMAIN color_idx_map
    \cup (IF Len(colors) < Len(ColorNames)
          THEN {ColorNames[Len(colors) + 1]} ELSE {})

add_block_keep_goal(color, direction, starting_position, goal_position) ==
    /\ pc = "build"
    /\ IF color \notin DOMAIN color_idx_map
       THEN /\ color_idx_map' = [c \in DOMAIN color_idx_map \cup {color} |->
                                   IF c = color THEN Len(colors)
                                   ELSE color_idx_map[c]]
            /\ colors' = Append(colors, color)
            /\ initial_state' = Append(initial_state,
                                   [position |-> starting_position,
                                    direction |-> direction])
            /\ goals' = Append(goals, goal_position)
       ELSE LET idx == color_idx_map[color]
            IN  /\ initial_state' = [initial_state EXCEPT ![idx + 1] =
                                       [position |-> starting_position,
                                        direction |-> direction]]
                /\ goals' = [goals EXCEPT ![idx + 1] =
                                IF goal_position = None THEN @
                                ELSE goal_position]
                /\ UNCHANGED <<colors, color_idx_map>>
    /\ UNCHANGED <<arrows, pc, max_cost, open_set, seen, node, result,
                   pushed, call, displaced>>

(* Game::add_block; the history of the calls is kept by the caller.       *)
add_block(color, direction, starting_position, goal_position) ==
    /\ pc = "build"
    /\ IF color \notin DOMAIN color_idx_map
       THEN /\ color_idx_map' = [c \in DOMAIN color_idx_map \cup {color} |->
                                   IF c = color THEN Len(colors)
                                   ELSE color_idx_map[c]]
            /\ colors' = Append(colors, color)
            /\ initial_state' = Append(initial_state,
                                   [position |-> starting_position,
                                    direction |-> direction])
            /\ goals' = Append(goals, goal_position)
       ELSE LET idx == color_idx_map[color]
            IN  /\ initial_state' = [initial_state EXCEPT ![idx + 1] =
                                       [position |-> starting_position,
                                        direction |-> direction]]
                /\ goals' = [goals EXCEPT ![idx + 1] = goal_position]
                /\ UNCHANGED <<colors, color_idx_map>>
    /\ UNCHANGED <<arrows, pc, max_cost, open_set, seen, node, result,
                   pushed, call, displaced>>

add_arrow(direction, position) ==
    /\ pc = "build"
    /\ arrows' = [p \in DOMAIN arrows \cup {position} |->
                    IF p = position THEN direction ELSE arrows[p]]
    /\ UNCHANGED <<goals, colors, color_idx_map, initial_state, pc,
                   max_cost, open_set, seen, node, result, pushed,
                   declared, call, displaced>>

AddBlock ==
    \E color \in InputColors, direction \in InputDirections,
       starting_position \in Cells,
       goal_position \in {None} \cup {Some(c) : c \in Cells} :
        /\ add_block(color, direction, starting_position, goal_position)
        /\ UNCHANGED declared

(* The games of the model have at most one arrowed cell.                 *)
AddArrow ==
    \E direction \in InputDirections,
       position \in IF arrows = <<>> THEN Cells ELSE DOMAIN arrows :
        add_arrow(direction, position)

(* Game::solve up to the call of astar, and astar up to its loop.         *)
Solve ==
    \E max_moves \in (-1)..MaxMoves :
        LET board_state == [cost |-> 0, previous_move |-> None,
                            squares |-> initial_state]
        IN  /\ pc = "build"
            /\ pc' = "loop"
            /\ max_cost' = max_moves
            /\ open_set' = heap_push(<<>>, [depth |-> 0,
                                            state |-> board_state,
                                            parent |-> None])
            /\ seen' = {}
            /\ pushed' = <<board_state>>
            /\ UNCHANGED <<goals, arrows, colors, color_idx_map,
                           initial_state, node, result, declared, call,
                           displaced>>

(* One iteration of `while let Some(node) = open_set.pop()`.              *)
PopGoal ==
    /\ pc = "loop"
    /\ open_set # <<>>
    /\ \E popped \in {heap_pop(open_set)} :
           /\ is_goal(popped[1].state)
           /\ node' = Some(popped[1])
           /\ open_set' = <<>>
           /\ result' = Some(MovesOf(node_to_path(popped[1])))
           /\ pc' = "done"
    /\ UNCHANGED <<goals, arrows, colors, color_idx_map, initial_state,
                   max_cost, seen, pushed, declared, call, displaced>>

PopExpand ==
    /\ pc = "loop"
    /\ open_set # <<>>
    /\ \E popped \in {heap_pop(open_set)} :
           /\ ~is_goal(popped[1].state)
           /\ within_budget(popped[1].state)
           /\ node' = Some(popped[1])
           /\ \E succs \in {successors(popped[1].state)} :
              \E acc \in {PushSuccessors(succs, 1, popped[1],
                                         popped[1].depth + 1,
                                         [seen |-> seen,
                                          open_set |-> popped[2],
                                          pushed |-> pushed])} :
                  /\ open_set' = acc.open_set
                  /\ seen' = acc.seen
                  /\ pushed' = acc.pushed
    /\ UNCHANGED <<goals, arrows, colors, color_idx_map, initial_state,
                   pc, max_cost, result, declared, call, displaced>>

PopSkip ==
    /\ pc = "loop"
    /\ open_set # <<>>
    /\ \E popped \in {heap_pop(open_set)} :
           /\ ~is_goal(popped[1].state)
           /\ ~within_budget(popped[1].state)
           /\ node' = Some(popped[1])
           /\ open_set' = popped[2]
    /\ UNCHANGED <<goals, arrows, colors, color_idx_map, initial_state,
                   pc, max_cost, seen, result, pushed, declared, call,
                   displaced>>

(* The frontier is empty: astar returns None, and so does solve.          *)
Exhausted ==
    /\ pc = "loop"
    /\ open_set = <<>>
    /\ result' = None
    /\ pc' = "done"
    /\ UNCHANGED <<goals, arrows, colors, color_idx_map, initial_state,
                   max_cost, open_set, seen, node, pushed, declared, call,
                   displaced>>

Next == AddBlock \/ AddArrow \/ Solve \/ PopGoal \/ PopExpand \/ PopSkip
        \/ Exhausted

Spec == Init /\ [][Next]_vars

(* astar runs to completion once called: its loop is not suspended.       *)
Loop == PopGoal \/ PopExpand \/ PopSkip \/ Exhausted

(* A loaded game with two blocks, for the runs of astar alone. Block a    *)
(* faces Right (the mirror image of a board behaves as the board does)    *)
(* and its goal, if any, is the first cell.                               *)
InitLoaded ==
    /\ colors = ColorNames
    /\ color_idx_map = [c \in {"a", "b"} |-> IF c = "a" THEN 0 ELSE 1]
    /\ \E pa \in Cells, ga \in {None, Some(<<0, 0>>)},
          pb \in Cells, db \in InputDirections,
          gb \in {None} \cup {Some(c) : c \in Cells} :
          /\ initial_state = <<[position |-> pa, direction |-> "Right"],
                               [position |-> pb, direction |-> db]>>
          /\ goals = <<ga, gb>>
    /\ \E A \in {{}} \cup {{c} : c \in Cells} :
          arrows \in [A -> InputDirections]
    /\ pc = "build"
    /\ max_cost = 0
    /\ open_set = <<>>
    /\ seen = {}
    /\ node = None
    /\ result = None
    /\ pushed = <<>>
    /\ declared = <<>>
    /\ call = None
    /\ displaced = <<>>

FairSpec == InitLoaded /\ [][Solve \/ Loop]_vars /\ WF_vars(Loop)

(* The building of a game alone: a sequence of at most MaxDeclared calls  *)
(* of add_block, each declaring one of the colors declared so far or the  *)
(* next unused name, with the history of the calls kept in declared.      *)
DeclareColors ==
    DOMAIN color_idx_map
    \cup (IF Len(colors) < Len(MoveColors)
          THEN {MoveColors[Len(colors) + 1]} ELSE {})

Declare ==
    /\ Len(declared) < MaxDeclared
    /\ \E color \in DeclareColors, direction \in InputDirections,
          starting_position \in {<<0, 0>>, <<1, 0>>},
          goal_position \in {None, Some(<<0, 0>>), Some(<<2, 0>>)} :
           /\ add_block(color, direction, starting_position, goal_position)
           /\ declared' = Append(declared,
                                 [color |-> color, direction |-> direction,
                                  starting_position |-> starting_position,
                                  goal_position |-> goal_position])

SpecBuild == Init /\ [][Declare]_vars

(* The transition model alone: a board with three blocks on a small 2-D  *)
(* set of cells, with goals for the first and the third block, and a walk *)
(* of moves from it (each step is one of the successors of the current    *)
(* state, linked to its parent).                                          *)
InitMove ==
    /\ colors = MoveColors
    /\ color_idx_map = [c \in {"a", "b", "c"} |->
                          IF c = "a" THEN 0 ELSE IF c = "b" THEN 1 ELSE 2]
    /\ initial_state \in [1..3 -> [position : MoveCells,
                                    direction : Direction]]
    /\ goals = MoveGoals
    /\ \E A \in {{}} \cup {{c} : c \in MoveCells} :
          arrows \in [A -> Direction]
    /\ pc = "move"
    /\ max_cost = 0
    /\ open_set = <<>>
    /\ seen = {}
    /\ node = Some([depth |-> 0,
                    state |-> [cost |-> 0, previous_move |-> None,
                               squares |-> initial_state],
                    parent |-> None])
    /\ result = None
    /\ pushed = <<>>
    /\ declared = <<>>
    /\ call = None
    /\ displaced = <<>>

MoveSquare ==
    /\ pc = "move"
    /\ node[1].depth < MoveSteps
    /\ \E i \in 1..Len(colors) :
          node' = Some([depth |-> node[1].depth + 1,
                        state |-> successors(node[1].state)[i],
                        parent |-> node])
    /\ UNCHANGED <<goals, arrows, colors, color_idx_map, initial_state,
                   pc, max_cost, open_set, seen, result, pushed,
                   declared, call, displaced>>

SpecMove == InitMove /\ [][MoveSquare]_vars

(* A move call by call: three blocks on the row of Cells, two of which    *)
(* may share a cell, at most one arrow, and a walk of moves in which each *)
(* call of push_square is one step.                                       *)
InitPush ==
    /\ colors = MoveColors
    /\ color_idx_map = [c \in {"a", "b", "c"} |->
                          IF c = "a" THEN 0 ELSE IF c = "b" THEN 1 ELSE 2]
    /\ initial_state \in [1..3 -> [position : Cells,
                                    direction : InputDirections]]
    /\ goals = MoveGoals
    /\ \E A \in {{}} \cup {{c} : c \in Cells} :
          arrows \in [A -> InputDirections]
    /\ pc = "move"
    /\ max_cost = 0
    /\ open_set = <<>>
    /\ seen = {}
    /\ node = Some([depth |-> 0,
                    state |-> [cost |-> 0, previous_move |-> None,
                               squares |-> initial_state],
                    parent |-> None])
    /\ result = None
    /\ pushed = <<>>
    /\ declared = <<>>
    /\ call = None
    /\ displaced = <<>>

(* move_square up to its call of push_square: the new state is a copy of  *)
(* the state, and the mover is to be pushed in its own direction.         *)
BeginMove ==
    /\ pc = "move"
    /\ node[1].depth < MoveSteps
    /\ \E color_idx \in 0..(Len(colors) - 1) :
          /\ node' = Some([depth |-> node[1].depth + 1,
                           state |-> [cost |-> node[1].state.cost + 1,
                                      previous_move |-> Some(color_idx),
                                      squares |-> node[1].state.squares],
                           parent |-> node])
          /\ call' = Some([color_idx |-> color_idx,
                           direction |->
                             node[1].state.squares[color_idx + 1].direction])
    /\ displaced' = <<>>
    /\ pc' = "push"
    /\ UNCHANGED <<goals, arrows, colors, color_idx_map, initial_state,
                   max_cost, open_set, seen, result, pushed, declared>>

(* One call of push_square: displace the block, take the direction of an  *)
(* arrow on its new cell, and call again for a block found on that cell.  *)
PushStep ==
    /\ pc = "push"
    /\ LET squares == node[1].state.squares
           color_idx == call[1].color_idx
           direction == call[1].direction
           block == squares[color_idx + 1]
           position == Displace(block.position, direction)
           moved == [position |-> position,
                     direction |-> IF position \in DOMAIN arrows
                                   THEN arrows[position]
                                   ELSE block.direction]
       IN  \E sq \in {[squares EXCEPT ![color_idx + 1] = moved]} :
           \E collided \in {find_collision_with(sq, color_idx)} :
               /\ node' = Some([node[1] EXCEPT !.state.squares = sq])
               /\ displaced' = Append(displaced, color_idx)
               /\ IF collided # None
                  THEN /\ call' = Some([color_idx |-> collided[1],
                                        direction |-> direction])
                       /\ pc' = "push"
                  ELSE /\ call' = None
                       /\ pc' = "move"
    /\ UNCHANGED <<goals, arrows, colors, color_idx_map, initial_state,
                   max_cost, open_set, seen, result, pushed, declared>>

(* A move runs to its end once begun: the recursion is not suspended.     *)
SpecPush == InitPush /\ [][BeginMove \/ PushStep]_vars /\ WF_vars(PushStep)

(* ----------------------- vocabulary of the claims --------------------- *)
(* Every goal-bearing block is on its goal cell.                          *)
AllOnGoal(squares) ==
    \A i \in 1..Len(colors) :
        goals[i] # None => squares[i].position = goals[i][1]

(* The configuration after moving the given colors, in order.             *)
RECURSIVE Replay(_, _)
Replay(squares, moves) ==
    IF moves = <<>> THEN squares
    ELSE Replay(move_square([cost |-> 0, previous_move |-> None,
                             squares |-> squares],
                            color_idx_map[moves[1]]).squares,
                Tail(moves))

(* The configurations reachable from S by at most k moves.                *)
RECURSIVE ReachWithin(_, _)
ReachWithin(S, k) ==
    IF k <= 0 \/ S = {} THEN S
    ELSE S \cup ReachWithin(
            {move_square([cost |-> 0, previous_move |-> None,
                          squares |-> sq], i - 1).squares :
                sq \in S, i \in 1..Len(colors)}, k - 1)

GoalReachableWithin(k) ==
    /\ k >= 0
    /\ \E sq \in ReachWithin({initial_state}, k) : AllOnGoal(sq)

Finished == pc = "done"
Present == pc = "done" /\ result # None
Absent == pc = "done" /\ result = None

(* ------------------------------- claims ------------------------------- *)
(* C1: a present result of solve, replayed move by move from the initial  *)
(* configuration, names only colors of the puzzle and ends in a           *)
(* configuration where every goal-bearing block is on its goal cell.      *)
C1_PresentResultSolves ==
    Present =>
        /\ \A i \in 1..Len(result[1]) : result[1][i] \in DOMAIN color_idx_map
        /\ AllOnGoal(Replay(initial_state, result[1]))

C1_Witness == Present /\ Len(result[1]) >= 2 /\ Len(colors) = 2

(* C2 as stated: for every integer max_moves the returned sequence has    *)
(* length at most max_moves.                                              *)
C2_LengthWithinAnyBudget == Present => Len(result[1]) <= max_cost

(* C2 amended: for max_moves >= 0 the returned sequence has length at     *)
(* most max_moves, and a puzzle with no solution of at most max_moves     *)
(* moves yields the absent result; for max_moves < 0 a present result is  *)
(* the empty sequence.                                                    *)
C2_LengthWithinBudget ==
    /\ Present => Len(result[1]) <= (IF max_cost >= 0 THEN max_cost ELSE 0)
    /\ (Finished /\ max_cost >= 0 /\ ~GoalReachableWithin(max_cost))
           => result = None

C2_Witness == Present /\ max_cost >= 1 /\ Len(result[1]) = max_cost

(* C3: an absent result means that no sequence of at most max_moves moves *)
(* from the initial configuration reaches a configuration satisfying      *)
(* every goal.                                                            *)
C3_AbsentMeansUnreachable == Absent => ~GoalReachableWithin(max_cost)

(* C4: no two states pushed onto the frontier during one run have the     *)
(* same identity, the initial state included.                             *)
C4_OnePushPerIdentity ==
    \A i, j \in 1..Len(pushed) :
        i # j => hash(pushed[i]) # hash(pushed[j])

(* C5: a search that has started eventually stops, either having popped a *)
(* goal state (present result) or with an empty frontier (absent result). *)
C5_SearchStops ==
    (pc = "loop") ~>
        (/\ pc = "done"
         /\ \/ result # None /\ node # None /\ AllOnGoal(node[1].state.squares)
            \/ result = None /\ open_set = <<>>)

(* The search finished although a move sequence led back to the initial   *)
(* configuration (a cycle of the configuration graph was closed).         *)
C5_Witness ==
    /\ Finished
    /\ \E i \in 2..Len(pushed) : pushed[i].squares = pushed[1].squares

(* C6: when the initial configuration already satisfies every goal (in    *)
(* particular when no color has a goal), solve returns the present, empty *)
(* move list, whatever max_moves is.                                      *)
C6_SolvedAtStart ==
    (Finished /\ AllOnGoal(initial_state)) => result = Some(<<>>)

C6_Witness ==
    /\ Present /\ result[1] = <<>>
    /\ max_cost < 0
    /\ \E i \in 1..Len(colors) : goals[i] # None

(* Vocabulary of the claims about one move: the node reached by the move  *)
(* and its parent.                                                        *)
Moved == node # None /\ node[1].parent # None
Before == node[1].parent[1].state.squares
After == node[1].state.squares
Mover == node[1].state.previous_move[1] + 1
MoveDir == Before[Mover].direction

DX(d) == IF d = "Right" THEN 1 ELSE IF d = "Left" THEN -1 ELSE 0
DY(d) == IF d = "Up" THEN 1 ELSE IF d = "Down" THEN -1 ELSE 0
Shift(p, d, k) == <<p[1] + k * DX(d), p[2] + k * DY(d)>>

(* The k-th cell ahead of the mover, and the blocks standing on it.       *)
Ahead(k) == Shift(Before[Mover].position, MoveDir, k)
BlocksAt(c) == {j \in 1..Len(Before) : j # Mover /\ Before[j].position = c}

(* The number of consecutive occupied cells ahead of the mover.           *)
RECURSIVE LineFrom(_)
LineFrom(k) == IF BlocksAt(Ahead(k)) # {} THEN LineFrom(k + 1) ELSE k - 1
Line == LineFrom(1)

Displaced == {j \in 1..Len(Before) : After[j].position # Before[j].position}

(* C7: the mover advances one cell in its facing direction d; of the      *)
(* blocks on each cell of the contiguous occupied line ahead, one is      *)
(* displaced one cell in the same direction d, whatever its own facing;   *)
(* no block off that line is displaced.                                   *)
C7_ChainPush ==
    Moved =>
        /\ After[Mover].position = Ahead(1)
        /\ \A k \in 1..Line :
              \E j \in BlocksAt(Ahead(k)) :
                  /\ After[j].position = Ahead(k + 1)
                  /\ \A i \in BlocksAt(Ahead(k)) \ {j} :
                        After[i].position = Before[i].position
        /\ \A j \in Displaced \ {Mover} :
              \E k \in 1..Line : Before[j].position = Ahead(k)

(* Three blocks in a line were displaced by one move, and a pushed block  *)
(* was facing another way than it was pushed.                             *)
C7_Witness ==
    /\ Moved
    /\ Line = 2
    /\ Cardinality(Displaced) = 3
    /\ \E j \in Displaced : Before[j].direction # MoveDir

(* C8: every block displaced by a move, the mover and the pushed blocks   *)
(* alike, is displaced in the direction the mover had before the move,    *)
(* also when an arrow on a destination cell redirects a block during the  *)
(* move; the block then holds the arrow's direction, which is the         *)
(* direction of its own next move.                                        *)
C8_ArrowTiming ==
    Moved =>
        /\ Mover \in Displaced
        /\ \A j \in Displaced :
              /\ After[j].position = Shift(Before[j].position, MoveDir, 1)
              /\ After[j].direction =
                    IF After[j].position \in DOMAIN arrows
                    THEN arrows[After[j].position]
                    ELSE Before[j].direction

(* A mover redirected by an arrow pushed a block in its old direction and *)
(* then, at its next own move, left along the arrow's direction.          *)
C8_Witness ==
    /\ Moved
    /\ node[1].depth = 2
    /\ LET first == node[1].parent[1]
           start == first.parent[1].state.squares
           m == first.state.previous_move[1] + 1
       IN  /\ Mover = m
           /\ first.state.squares[m].position \in DOMAIN arrows
           /\ first.state.squares[m].direction # start[m].direction
           /\ \E j \in 1..Len(start) :
                 /\ j # m
                 /\ first.state.squares[j].position =
                       Shift(start[j].position, start[m].direction, 1)
           /\ MoveDir = arrows[first.state.squares[m].position]

(* Vocabulary of C9: the sum of the distances, without abs.               *)
Gap(x, y) == IF x >= y THEN x - y ELSE y - x
RECURSIVE SumGaps(_, _)
SumGaps(squares, I) ==
    IF I = {} THEN 0
    ELSE LET i == CHOOSE j \in I : TRUE
         IN  Gap(squares[i].position[1], goals[i][1][1])
             + Gap(squares[i].position[2], goals[i][1][2])
             + SumGaps(squares, I \ {i})
GoalBearing == {i \in 1..Len(colors) : goals[i] # None}

(* C9: for every state reached by moves, distance_to_goal is the sum over *)
(* the goal-bearing colors of the Manhattan distance from the block to    *)
(* its goal, is at least 0, is 0 exactly when every goal-bearing block is *)
(* on its goal, and is_goal holds exactly when it is 0.                   *)
C9_DistanceToGoal ==
    \A s \in {node[1].state} :
        /\ distance_to_goal(s) = SumGaps(s.squares, GoalBearing)
        /\ distance_to_goal(s) >= 0
        /\ distance_to_goal(s) = 0 <=> AllOnGoal(s.squares)
        /\ is_goal(s) <=> distance_to_goal(s) = 0

(* A state in which two blocks are off their goals, one of them in both   *)
(* coordinates.                                                           *)
C9_Witness ==
    \E s \in {node[1].state} :
        /\ Cardinality(GoalBearing) = 2
        /\ distance_to_goal(s) >= 3
        /\ \E i \in GoalBearing :
              /\ s.squares[i].position[1] # goals[i][1][1]
              /\ s.squares[i].position[2] # goals[i][1][2]
        /\ s.cost >= 1

(* Vocabulary of C11: the declarations of a color in the history, and     *)
(* the colors of the history in the order of their first declaration.     *)
DeclarationsOf(color) ==
    {k \in 1..Len(declared) : declared[k].color = color}
LastOf(color) ==
    CHOOSE k \in DeclarationsOf(color) :
        \A l \in DeclarationsOf(color) : l <= k
RECURSIVE FirstDeclared(_)
FirstDeclared(k) ==
    IF k = 0 THEN <<>>
    ELSE IF \E l \in 1..(k - 1) : declared[l].color = declared[k].color
         THEN FirstDeclared(k - 1)
         ELSE Append(FirstDeclared(k - 1), declared[k].color)

(* C11: after any sequence of add_block calls the color list holds each   *)
(* declared color once, in the order of the first declarations, the       *)
(* index map points at it, colors, blocks and goals have equal length,    *)
(* and a color's block and goal are those of its last declaration (a      *)
(* re-declaration indexes inside the vectors, so it does not fail).       *)
C11_LastDeclarationWins ==
    /\ colors = FirstDeclared(Len(declared))
    /\ \A i, j \in 1..Len(colors) : colors[i] = colors[j] => i = j
    /\ Len(initial_state) = Len(colors)
    /\ Len(goals) = Len(colors)
    /\ DOMAIN color_idx_map = {declared[k].color : k \in 1..Len(declared)}
    /\ \A c \in DOMAIN color_idx_map :
          LET idx == color_idx_map[c]
              last == declared[LastOf(c)]
          IN  /\ idx \in 0..(Len(colors) - 1)
              /\ colors[idx + 1] = c
              /\ initial_state[idx + 1] =
                    [position |-> last.starting_position,
                     direction |-> last.direction]
              /\ goals[idx + 1] = last.goal_position

(* A color with a goal was declared again, after another color, with      *)
(* another cell and facing and without a goal.                            *)
C11_Witness ==
    /\ Len(declared) = 3
    /\ declared[1].color = declared[3].color
    /\ declared[2].color # declared[1].color
    /\ declared[1].goal_position # None
    /\ declared[3].goal_position = None
    /\ declared[3].starting_position # declared[1].starting_position
    /\ declared[3].direction # declared[1].direction
    /\ goals[1] = None

(* Vocabulary of C12: the priority of a node of the frontier.             *)
F(n) == cost(n.state) + distance_to_goal(n.state)

(* C12: a pop takes from the frontier a node whose f = cost +             *)
(* distance_to_goal is the lowest of the frontier at that moment.         *)
C12_PopLowestF ==
    [][(pc = "loop" /\ open_set # <<>>) =>
          /\ node' # None
          /\ \E i \in 1..Len(open_set) : open_set[i] = node'[1]
          /\ \A i \in 1..Len(open_set) : F(node'[1]) <= F(open_set[i])]_vars

(* A node that was not the root was popped while the frontier held, from  *)
(* before the pop, a node of strictly higher f and a node of equal f.     *)
C12_Witness ==
    /\ pc = "loop"
    /\ node # None
    /\ node[1].depth >= 1
    /\ \E i, j \in 1..Len(open_set) :
          /\ open_set[i].depth <= node[1].depth
          /\ open_set[j].depth <= node[1].depth
          /\ F(open_set[i]) > F(node[1])
          /\ F(open_set[j]) = F(node[1])

(* C13: at every point of the search the seen set contains the identity  *)
(* of every state pushed onto the frontier so far, the initial state      *)
(* included.                                                              *)
C13_SeenHoldsEveryPushed ==
    \A i \in 1..Len(pushed) : hash(pushed[i]) \in seen

(* C14: a popped state whose cost is at least max_moves is goal-tested    *)
(* (a goal ends the search with a present result) and otherwise only      *)
(* removed: nothing is pushed and nothing enters seen; and for            *)
(* max_moves >= 0 every state ever pushed onto the frontier has cost at   *)
(* most max_moves.                                                        *)
C14_BudgetStopsExpansion ==
    /\ [](max_cost >= 0 =>
              \A i \in 1..Len(pushed) : cost(pushed[i]) <= max_cost)
    /\ [][(/\ pc = "loop"
           /\ open_set # <<>>
           /\ cost(node'[1].state) >= max_cost)
          => /\ pushed' = pushed
             /\ seen' = seen
             /\ IF is_goal(node'[1].state)
                THEN pc' = "done" /\ result' # None
                ELSE /\ pc' = "loop"
                     /\ Len(open_set') = Len(open_set) - 1
                     /\ \A i \in 1..Len(open_set') :
                           \E j \in 1..Len(open_set) :
                               open_set'[i] = open_set[j]]_vars

(* A state at the budget that is no goal was popped and left unexpanded   *)
(* although it has a successor whose identity is not in seen.             *)
C14_Witness ==
    /\ pc = "loop"
    /\ node # None
    /\ max_cost >= 2
    /\ cost(node[1].state) = max_cost
    /\ ~is_goal(node[1].state)
    /\ \E i \in 1..Len(colors) :
          hash(successors(node[1].state)[i]) \notin seen

(* Vocabulary of C15: the successors of the node popped last (pushed or   *)
(* not), the states built so far in a search (the pushed ones and those   *)
(* successors), and the equality of two states color by color.            *)
Built ==
    IF node # None
    THEN {successors(node[1].state)[i] : i \in 1..Len(colors)} ELSE {}
Generated == {pushed[i] : i \in 1..Len(pushed)} \cup Built
SameConfiguration(s, t) ==
    \A i \in 1..Len(colors) :
        /\ s.squares[i].position = t.squares[i].position
        /\ s.squares[i].direction = t.squares[i].direction

(* C15: two states have the same identity, and nodes holding them are     *)
(* equal, exactly when every color has the same position and the same     *)
(* direction in both, whatever their cost, producing move and parent.     *)
C15_IdentityIsConfiguration ==
    \A s \in Built, t \in Generated :
        \E same \in {SameConfiguration(s, t)} :
            /\ (hash(s) = hash(t)) <=> same
            /\ eq([depth |-> s.cost, state |-> s, parent |-> node],
                  [depth |-> t.cost, state |-> t, parent |-> None])
               <=> same

(* The search built two states of one configuration with different costs  *)
(* and producing moves, and two states that differ only in the direction  *)
(* of a block.                                                            *)
C15_Witness ==
    /\ \E s \in Built, t \in Generated :
          /\ SameConfiguration(s, t)
          /\ s.cost # t.cost
          /\ s.previous_move # None
          /\ t.previous_move # None
          /\ s.previous_move # t.previous_move
    /\ \E s \in Built, t \in Generated :
          /\ ~SameConfiguration(s, t)
          /\ \A i \in 1..Len(colors) :
                s.squares[i].position = t.squares[i].position

(* C16: the successors of a state (here: of every state a walk moves      *)
(* from) are one per color, in the order of the color list; the i-th is   *)
(* the state after the move of the i-th color, costs one more than the    *)
(* state, records that color as its producing move and holds a block for  *)
(* every color.                                                           *)
C16_SuccessorsPerColor ==
    node[1].depth < MoveSteps =>
        \E s \in {node[1].state} :
        \E succs \in {successors(s)} :
            /\ Len(succs) = Len(colors)
            /\ \A i \in 1..Len(colors) :
                  /\ succs[i].squares = Replay(s.squares, <<colors[i]>>)
                  /\ succs[i].cost = s.cost + 1
                  /\ succs[i].previous_move # None
                  /\ colors[succs[i].previous_move[1] + 1] = colors[i]
                  /\ Len(succs[i].squares) = Len(colors)

(* A state produced by a move has three successors of pairwise different  *)
(* configurations.                                                        *)
C16_Witness ==
    /\ node[1].state.cost >= 1
    /\ node[1].depth < MoveSteps
    /\ \E succs \in {successors(node[1].state)} :
          /\ Len(succs) = 3
          /\ \A i, j \in 1..3 : i # j => succs[i].squares # succs[j].squares

(* Vocabulary of C17: the nodes from the root to a node.                  *)
RECURSIVE NodeChain(_)
NodeChain(n) ==
    (IF n.parent = None THEN <<>> ELSE NodeChain(n.parent[1])) \o <<n>>

(* C17: on the chain of nodes from the root to a returned goal node the   *)
(* i-th state (from 0) is the state of the i-th node, has cost i and      *)
(* depth i; the first is the initial state, with no producing move; each  *)
(* later one is the move of its producing color from the one before, and  *)
(* the returned list names exactly these colors, in this order.           *)
C17_PathCostIsIndex ==
    Present =>
        \E chain \in {NodeChain(node[1])} :
        \E path \in {node_to_path(node[1])} :
            /\ Len(path) = Len(chain)
            /\ Len(result[1]) = Len(path) - 1
            /\ path[1].squares = initial_state
            /\ path[1].previous_move = None
            /\ \A i \in 1..Len(path) :
                  /\ path[i] = chain[i].state
                  /\ path[i].cost = i - 1
                  /\ chain[i].depth = i - 1
            /\ \A i \in 2..Len(path) :
                  /\ path[i].previous_move # None
                  /\ path[i] = move_square(path[i - 1],
                                           path[i].previous_move[1])
                  /\ result[1][i - 1] = colors[path[i].previous_move[1] + 1]

(* A returned list of three moves in which both colors move.              *)
C17_Witness ==
    /\ Present
    /\ Len(result[1]) = 3
    /\ \E i, j \in 1..3 : result[1][i] # result[1][j]

(* Vocabulary of C18: the displacements of the move under way.            *)
WasDisplaced(j) == \E k \in 1..Len(displaced) : displaced[k] = j - 1
PushInvariant ==
    /\ Len(displaced) <= Len(colors)
    /\ \A k, l \in 1..Len(displaced) :
          k # l => displaced[k] # displaced[l]
    /\ Moved =>
          \A j \in 1..Len(Before) :
              IF WasDisplaced(j)
              THEN After[j].position = Shift(Before[j].position, MoveDir, 1)
              ELSE After[j] = Before[j]
    /\ (Moved /\ pc = "move") =>
          /\ displaced # <<>>
          /\ displaced[1] = Mover - 1
          /\ \A k \in 1..(Len(displaced) - 1) :
                Before[displaced[k + 1] + 1].position
                    = After[displaced[k] + 1].position
          /\ \A j \in 1..Len(After) :
                j # displaced[Len(displaced)] + 1 =>
                    After[j].position
                        # After[displaced[Len(displaced)] + 1].position
          /\ After = move_square(node[1].parent[1].state, Mover - 1).squares

(* C18: the calls of push_square of one move come to an end; each         *)
(* displaces another block, by one cell in the direction of the move, so  *)
(* there are at most as many as blocks; each but the first displaces a    *)
(* block found on the cell the one before moved to, and the last one      *)
(* moves its block to a cell that no other block occupies.                *)
C18_ChainPushTerminates ==
    /\ []PushInvariant
    /\ (pc = "push") ~> (pc = "move")

(* A move has ended after displacing all three blocks.                    *)
C18_Witness ==
    /\ pc = "move"
    /\ Moved
    /\ Len(displaced) = 3

(* C19: a move builds a new state and leaves the state it moves from, the *)
(* goals, the arrows and the colors as they were; a block that is neither *)
(* the mover nor on the occupied line ahead of it keeps its position and  *)
(* direction, as does every block that is not displaced; the direction of *)
(* a displaced block changes only to that of an arrow on its new cell.    *)
C19_MoveFrame ==
    /\ [](Moved =>
            \A j \in 1..Len(Before) :
                /\ Len(After) = Len(Before)
                /\ (j # Mover
                    /\ \A k \in 1..Line : Before[j].position # Ahead(k))
                      => After[j] = Before[j]
                /\ After[j].position = Before[j].position
                      => After[j] = Before[j]
                /\ After[j].direction # Before[j].direction
                      => /\ After[j].position \in DOMAIN arrows
                         /\ After[j].direction = arrows[After[j].position])
    /\ [][/\ node'[1].parent = node
          /\ goals' = goals
          /\ arrows' = arrows
          /\ colors' = colors
          /\ color_idx_map' = color_idx_map
          /\ initial_state' = initial_state]_vars

(* One move displaced two blocks, of which one took the direction of an   *)
(* arrow and the other, facing another way than the move, kept its own,   *)
(* and left the third block where it was.                                 *)
C19_Witness ==
    /\ Moved
    /\ Cardinality(Displaced) = 2
    /\ \E i, j \in Displaced :
          /\ After[i].direction # Before[i].direction
          /\ After[j].direction = Before[j].direction
          /\ Before[j].direction # MoveDir

(* Vocabulary of C20: no two blocks on one cell.                          *)
DistinctCells(squares) ==
    \A i, j \in 1..Len(squares) :
        i # j => squares[i].position # squares[j].position

(* C20: if the blocks of the initial configuration stand on pairwise      *)
(* distinct cells, so do the blocks of every state reached by moves.      *)
C20_DistinctCellsKept ==
    DistinctCells(initial_state) => DistinctCells(node[1].state.squares)

(* From distinct cells, a second move pushed both other blocks.           *)
C20_Witness ==
    /\ DistinctCells(initial_state)
    /\ Moved
    /\ node[1].depth = 2
    /\ Line = 2
    /\ DistinctCells(After)

====
